---- MODULE Spec2Model ----
(***************************************************************************)
(* Model of mutagen/_tags.py: the PaddingInfo padding strategies           *)
(* (get_padding_for_sharing, get_padding_for_storage, get_default_padding, *)
(* _get_padding) and the abstract Tags / Metadata base classes.            *)
(*                                                                         *)
(* Python values are modelled as follows:                                  *)
(*   - an Optional[int] is a sequence: <<>> is None, <<n>> is the int n;   *)
(*   - the outcome of a call is a record [kind, val, exc, msg]: kind is    *)
(*     "return" (val is the returned int) or "raise" (exc is the exception *)
(*     type, msg the words of its message);                                *)
(*   - Python's // and % are floor division and floor modulo; TLA+'s \div  *)
(*     and % agree with them for a positive divisor, PyMod extends % to    *)
(*     the other divisors as Python defines it.                            *)
(***************************************************************************)
EXTENDS Integers, Sequences, FiniteSets, TLC

VARIABLES
    info,    \* the PaddingInfo object of the current save, NoInfo before __init__
    ret,     \* the last call on info: its name, its argument and its outcome
    prev,    \* <<p>> when info was built for a re-save on top of padding p
    meta,    \* the Tags / Metadata instance, NoObj before construction
    mret,    \* the last call on meta and its outcome
    io,      \* how many file handles the file wrapper has opened and closed
    hist     \* how many times the constructor and each base operation were called

vars == <<info, ret, prev, meta, mret, io, hist>>

padVars == <<info, ret, prev>>
metaVars == <<meta, mret, io, hist>>

-----------------------------------------------------------------------------
(* Bounds of the explored inputs.                                          *)

MaxSmall == 2      \* offsets around each boundary value: -MaxSmall..MaxSmall
MaxMult == 2       \* new_tail_size reaches MaxMult * 1000 (+1)
MaxHead == 3       \* new_head_size ranges over 0..MaxHead (and the spec vector)
MaxBlock == 3      \* fs_block_size ranges over -MaxBlock..MaxBlock (and 4096)
MaxCalls == 2      \* calls of each base operation on one Metadata instance

None == <<>>
Some(n) == <<n>>

SmallInts == (-MaxSmall)..MaxSmall

\* The `padding` constructor argument (size_diff is its negation): small
\* values of both signs, the neighbourhoods of low and of high for every
\* explored new_tail_size, and the spec's test vectors.
Paddings ==
    SmallInts
    \cup { 1024 * 10 + d : d \in (-MaxSmall)..(10 * MaxMult + MaxSmall) }
    \cup { 1024 + d : d \in (-1)..(MaxMult + 1) }
    \cup { 500, 70000, -300, 200 }

\* new_tail_size: around the multiples of 100 and 1000 (where // steps), the
\* spec's vectors, and two negative sizes outside the documented domain.
TailSizes ==
    { 1000 * m + r : m \in 0..MaxMult, r \in {-1, 0, 1} }
    \cup { 100 * m + r : m \in 1..MaxMult, r \in {-1, 0} }
    \cup { -1030000, -2000000 }

HeadSizes == { None } \cup { Some(n) : n \in 0..MaxHead } \cup { Some(5000) }

BlockSizes == { None } \cup { Some(n) : n \in (-MaxBlock)..MaxBlock } \cup { Some(4096) }

\* The constructor arguments explored: the sharing strategy reads only
\* padding and new_tail_size, the storage strategy only padding,
\* new_head_size and fs_block_size, so each family varies what its strategy
\* reads and keeps the rest to one or two values.
SharingInputs == Paddings \X TailSizes \X { None } \X { None, Some(4096) }

StorageInputs ==
    (SmallInts \cup { 500, -300, 200, 4096, -4097 }) \X { 0, 1000 }
    \X HeadSizes \X BlockSizes

Inputs == SharingInputs \cup StorageInputs

-----------------------------------------------------------------------------
(* Call outcomes.                                                          *)

Return(v) == [kind |-> "return", val |-> v, exc |-> "", msg |-> <<>>]
Raise(e, m) == [kind |-> "raise", val |-> 0, exc |-> e, msg |-> m]

NoInfo == [size_diff |-> 0, new_tail_size |-> 0, new_head_size |-> None,
           fs_block_size |-> None, padding |-> 0, size |-> 0, built |-> FALSE]

NoRet == [op |-> "", arg |-> "", out |-> Return(0), ncalls |-> 0]

\* Python's a % b on ints: the result has the sign of b; b = 0 is an error
\* that the callers turn into ZeroDivisionError before using PyMod.
PyMod(a, b) ==
    IF b > 0 THEN a % b
    ELSE IF b < 0 THEN -((-a) % (-b))
    ELSE 0

-----------------------------------------------------------------------------
(* class PaddingInfo                                                       *)

\* PaddingInfo.__init__(padding, new_tail_size, new_head_size, fs_block_size)
PaddingInfo_init(padding, new_tail_size, new_head_size, fs_block_size) ==
    LET size_diff == -padding IN
    [size_diff |-> size_diff,
     new_tail_size |-> new_tail_size,
     new_head_size |-> new_head_size,
     fs_block_size |-> fs_block_size,
     padding |-> -size_diff,
     size |-> new_tail_size,
     built |-> TRUE]

\* The locals of get_padding_for_sharing.
sharing_high(self) == 1024 * 10 + self.size \div 100
sharing_low(self) == 1024 + self.size \div 1000

\* Variants of get_padding_for_sharing with one slip each: the sign test
\* dropped, the bound compared with >=, the oversized padding reduced by low
\* instead of to low.
sharing_without_sign_test(self) ==
    IF self.padding > sharing_high(self)
    THEN Return(sharing_low(self))
    ELSE Return(self.padding)

sharing_with_inclusive_bound(self) ==
    IF self.padding >= 0
    THEN IF self.padding >= sharing_high(self)
         THEN Return(sharing_low(self))
         ELSE Return(self.padding)
    ELSE Return(sharing_low(self))

sharing_reducing_by_low(self) ==
    IF self.padding >= 0
    THEN IF self.padding > sharing_high(self)
         THEN Return(self.padding - sharing_low(self))
         ELSE Return(self.padding)
    ELSE Return(sharing_low(self))

get_padding_for_sharing(self) ==
    LET high == sharing_high(self)
        low == sharing_low(self)
    IN  IF self.padding >= 0
        THEN IF self.padding > high
             THEN Return(low)
             ELSE Return(self.padding)
        ELSE Return(low)

get_default_padding(self) == get_padding_for_sharing(self)

\* Variants of the storage arithmetic with one slip each: the final modulo
\* dropped, old_align not added, size_diff added instead of subtracted,
\* // written for % in the alignment term.
storage_without_final_mod(new_head_size, fs_block_size, size_diff) ==
    IF fs_block_size = 0
    THEN Raise("ZeroDivisionError", <<"integer", "modulo", "by", "zero">>)
    ELSE LET old_head_size == new_head_size - size_diff
             old_align == PyMod(old_head_size, fs_block_size)
             res0 == fs_block_size - PyMod(new_head_size, fs_block_size)
         IN  Return(res0 + old_align)

storage_without_old_align(new_head_size, fs_block_size, size_diff) ==
    IF fs_block_size = 0
    THEN Raise("ZeroDivisionError", <<"integer", "modulo", "by", "zero">>)
    ELSE LET res0 == fs_block_size - PyMod(new_head_size, fs_block_size)
         IN  Return(PyMod(res0, fs_block_size))

storage_adding_size_diff(new_head_size, fs_block_size, size_diff) ==
    IF fs_block_size = 0
    THEN Raise("ZeroDivisionError", <<"integer", "modulo", "by", "zero">>)
    ELSE LET old_head_size == new_head_size + size_diff
             old_align == PyMod(old_head_size, fs_block_size)
             res0 == fs_block_size - PyMod(new_head_size, fs_block_size)
             res == res0 + old_align
         IN  Return(PyMod(res, fs_block_size))

storage_dividing_head(new_head_size, fs_block_size, size_diff) ==
    IF fs_block_size = 0
    THEN Raise("ZeroDivisionError", <<"integer", "modulo", "by", "zero">>)
    ELSE LET old_head_size == new_head_size - size_diff
             old_align == PyMod(old_head_size, fs_block_size)
             quot == IF fs_block_size > 0
                     THEN new_head_size \div fs_block_size
                     ELSE (-new_head_size) \div (-fs_block_size)
             res0 == fs_block_size - quot
             res == res0 + old_align
         IN  Return(PyMod(res, fs_block_size))

\* The arithmetic of get_padding_for_storage, after the two None checks.
storage_compute(new_head_size, fs_block_size, size_diff) ==
    IF fs_block_size = 0
    THEN Raise("ZeroDivisionError", <<"integer", "modulo", "by", "zero">>)
    ELSE LET old_head_size == new_head_size - size_diff
             old_align == PyMod(old_head_size, fs_block_size)
             res0 == fs_block_size - PyMod(new_head_size, fs_block_size)
             res == res0 + old_align
         IN  Return(PyMod(res, fs_block_size))

\* Variant of get_padding_for_storage that checks fs_block_size first.
storage_checking_block_size_first(self) ==
    IF self.fs_block_size = None
    THEN Raise("ValueError",
               <<"get_padding_for_storage", "requries", "fs_block_size">>)
    ELSE IF self.new_head_size = None
    THEN Raise("ValueError",
               <<"get_padding_for_storage", "requires", "new_head_size">>)
    ELSE storage_compute(self.new_head_size[1], self.fs_block_size[1],
                         self.size_diff)

get_padding_for_storage(self) ==
    IF self.new_head_size = None
    THEN Raise("ValueError",
               <<"get_padding_for_storage", "requires", "new_head_size">>)
    ELSE IF self.fs_block_size = None
    THEN Raise("ValueError",
               <<"get_padding_for_storage", "requries", "fs_block_size">>)
    ELSE storage_compute(self.new_head_size[1], self.fs_block_size[1],
                         self.size_diff)

\* The callbacks a caller may pass as the padding strategy: the class
\* docstring's example (get_default_padding), the storage strategy, and
\* callbacks that return a negative value, a very large value, a value
\* computed from the info, or that raise.
UserFuncs == { "default", "storage", "negative", "huge", "double", "raises" }

user_func_call(f, self) ==
    CASE f = "default" -> get_default_padding(self)
      [] f = "storage" -> get_padding_for_storage(self)
      [] f = "negative" -> Return(-7)
      [] f = "huge" -> Return(2000000000)
      [] f = "double" -> Return(2 * self.padding)
      [] f = "raises" -> Raise("RuntimeError", <<"boom">>)

\* Variant of _get_padding that clamps the user's value at 0.
get_padding_clamping(self, user_func) ==
    IF user_func = None
    THEN [out |-> get_default_padding(self), ncalls |-> 0]
    ELSE LET r == user_func_call(user_func[1], self)
         IN  [out |-> IF r.kind = "return" /\ r.val < 0 THEN Return(0) ELSE r,
              ncalls |-> 1]

\* PaddingInfo._get_padding(user_func): the outcome, and how many times the
\* user's function was called.
get_padding(self, user_func) ==
    IF user_func = None
    THEN [out |-> get_default_padding(self), ncalls |-> 0]
    ELSE [out |-> user_func_call(user_func[1], self), ncalls |-> 1]

-----------------------------------------------------------------------------
(* The padding state machine: one PaddingInfo per save, the calls on it,    *)
(* and a following save that finds the padding the previous one wrote.      *)

Construct ==
    /\ ~info.built
    /\ \E i \in Inputs : info' = PaddingInfo_init(i[1], i[2], i[3], i[4])
    /\ ret' = NoRet
    /\ prev' = None
    /\ UNCHANGED metaVars

CallSharing ==
    /\ info.built
    /\ ret' = [op |-> "get_padding_for_sharing", arg |-> None,
               out |-> get_padding_for_sharing(info), ncalls |-> 0]
    /\ UNCHANGED <<info, prev>>
    /\ UNCHANGED metaVars

CallDefault ==
    /\ info.built
    /\ ret' = [op |-> "get_default_padding", arg |-> None,
               out |-> get_default_padding(info), ncalls |-> 0]
    /\ UNCHANGED <<info, prev>>
    /\ UNCHANGED metaVars

CallStorage ==
    /\ info.built
    /\ ret' = [op |-> "get_padding_for_storage", arg |-> None,
               out |-> get_padding_for_storage(info), ncalls |-> 0]
    /\ UNCHANGED <<info, prev>>
    /\ UNCHANGED metaVars

CallGetPadding(user_func) ==
    /\ info.built
    /\ LET r == get_padding(info, user_func)
       IN  ret' = [op |-> "_get_padding", arg |-> user_func,
                   out |-> r.out, ncalls |-> r.ncalls]
    /\ UNCHANGED <<info, prev>>
    /\ UNCHANGED metaVars

\* The next save of the same file: the sharing padding p was written, the
\* metadata size does not change, so the new PaddingInfo is built with
\* padding = p and the same sizes.
Resave ==
    /\ info.built
    /\ ret.op \in {"get_padding_for_sharing", "get_default_padding"}
    /\ ret.out.kind = "return"
    /\ info' = PaddingInfo_init(ret.out.val, info.new_tail_size,
                                info.new_head_size, info.fs_block_size)
    /\ prev' = Some(ret.out.val)
    /\ ret' = NoRet
    /\ UNCHANGED metaVars

-----------------------------------------------------------------------------
(* class Tags, class Metadata(Tags)                                        *)

\* An instance: its class, its lifecycle state and its attributes (the
\* object's __dict__). Neither base class sets an attribute.
NoObj == [exists |-> FALSE, cls |-> "", state |-> "Unloaded", attrs |-> {}]
NewObj(cls) == [exists |-> TRUE, cls |-> cls, state |-> "Unloaded", attrs |-> {}]

NoMret == [op |-> "", src |-> "Absent", kw |-> FALSE, out |-> Return(0),
           loads |-> 0]
NoIo == [opened |-> 0, closed |-> 0]
NoHist == [init |-> 0, load |-> 0, save |-> 0, delete |-> 0, pprint |-> 0]

\* The filething argument: not passed, None, a path, or an open file
\* object that belongs to the caller.
Sources == { "Absent", "None", "Path", "Handle" }

\* The bodies of the base methods: each raises NotImplementedError and
\* touches nothing. A body yields the instance after the call and the
\* outcome.
Tags_pprint(self) ==
    [self |-> self, out |-> Raise("NotImplementedError", <<>>)]

\* Variant of Metadata.load with a default body that succeeds.
Metadata_load_succeeding(self, src, kw) ==
    [self |-> [self EXCEPT !.state = "Loaded"], out |-> Return(0)]

Metadata_load(self, src, kw) ==
    [self |-> self, out |-> Raise("NotImplementedError", <<>>)]

Metadata_save(self, src, kw) ==
    [self |-> self, out |-> Raise("NotImplementedError", <<>>)]

Metadata_delete(self, src) ==
    [self |-> self, out |-> Raise("NotImplementedError", <<>>)]

\* The @loadfile wrapper of load, save and delete (mutagen._util): for a
\* path it opens a handle around the body and closes it on every exit path;
\* a caller's handle is passed through and never closed; the body's failure
\* propagates.
loadfile(files, src) ==
    IF src = "Path"
    THEN [files EXCEPT !.opened = @ + 1, !.closed = @ + 1]
    ELSE files

\* Metadata.__init__(*args, **kwargs): load is called iff an argument was
\* given. A constructor that raises yields no instance.
Metadata_init(src, kw) ==
    IF src # "Absent" \/ kw
    THEN LET r == Metadata_load(NewObj("Metadata"), src, kw)
         IN  [self |-> IF r.out.kind = "raise" THEN NoObj ELSE r.self,
              out |-> r.out, loads |-> 1]
    ELSE [self |-> NewObj("Metadata"), out |-> Return(0), loads |-> 0]

NewTags ==
    /\ ~meta.exists
    /\ hist.init < MaxCalls
    /\ meta' = NewObj("Tags")
    /\ mret' = [op |-> "__init__", src |-> "Absent", kw |-> FALSE,
                out |-> Return(0), loads |-> 0]
    /\ hist' = [hist EXCEPT !.init = @ + 1]
    /\ UNCHANGED io
    /\ UNCHANGED padVars

NewMetadata(src, kw) ==
    /\ ~meta.exists
    /\ hist.init < MaxCalls
    /\ LET r == Metadata_init(src, kw)
       IN  /\ meta' = r.self
           /\ mret' = [op |-> "__init__", src |-> src, kw |-> kw,
                       out |-> r.out, loads |-> r.loads]
           /\ io' = IF r.loads > 0 THEN loadfile(io, src) ELSE io
    /\ hist' = [hist EXCEPT !.init = @ + 1]
    /\ UNCHANGED padVars

CallPprint ==
    /\ meta.exists
    /\ hist.pprint < MaxCalls
    /\ LET r == Tags_pprint(meta)
       IN  /\ meta' = r.self
           /\ mret' = [op |-> "pprint", src |-> "Absent", kw |-> FALSE,
                       out |-> r.out, loads |-> 0]
    /\ hist' = [hist EXCEPT !.pprint = @ + 1]
    /\ UNCHANGED io
    /\ UNCHANGED padVars

CallLoad(src, kw) ==
    /\ meta.exists /\ meta.cls = "Metadata"
    /\ hist.load < MaxCalls
    /\ LET r == Metadata_load(meta, src, kw)
       IN  /\ meta' = r.self
           /\ mret' = [op |-> "load", src |-> src, kw |-> kw,
                       out |-> r.out, loads |-> 1]
    /\ io' = loadfile(io, src)
    /\ hist' = [hist EXCEPT !.load = @ + 1]
    /\ UNCHANGED padVars

CallSave(src, kw) ==
    /\ meta.exists /\ meta.cls = "Metadata"
    /\ hist.save < MaxCalls
    /\ LET r == Metadata_save(meta, src, kw)
       IN  /\ meta' = r.self
           /\ mret' = [op |-> "save", src |-> src, kw |-> kw,
                       out |-> r.out, loads |-> 0]
    /\ io' = loadfile(io, src)
    /\ hist' = [hist EXCEPT !.save = @ + 1]
    /\ UNCHANGED padVars

CallDelete(src) ==
    /\ meta.exists /\ meta.cls = "Metadata"
    /\ hist.delete < MaxCalls
    /\ LET r == Metadata_delete(meta, src)
       IN  /\ meta' = r.self
           /\ mret' = [op |-> "delete", src |-> src, kw |-> FALSE,
                       out |-> r.out, loads |-> 0]
    /\ io' = loadfile(io, src)
    /\ hist' = [hist EXCEPT !.delete = @ + 1]
    /\ UNCHANGED padVars

-----------------------------------------------------------------------------

Init ==
    /\ info = NoInfo
    /\ ret = NoRet
    /\ prev = None
    /\ meta = NoObj
    /\ mret = NoMret
    /\ io = NoIo
    /\ hist = NoHist

Next ==
    \/ Construct
    \/ CallSharing
    \/ CallDefault
    \/ CallStorage
    \/ \E f \in { None } \cup { Some(u) : u \in UserFuncs } : CallGetPadding(f)
    \/ Resave

Spec == Init /\ [][Next]_vars

MetaNext ==
    \/ NewTags
    \/ \E src \in Sources, kw \in BOOLEAN : NewMetadata(src, kw)
    \/ CallPprint
    \/ \E src \in Sources \ { "Absent" }, kw \in BOOLEAN : CallLoad(src, kw)
    \/ \E src \in Sources, kw \in BOOLEAN : CallSave(src, kw)
    \/ \E src \in Sources : CallDelete(src)

MetaSpec == Init /\ [][MetaNext]_vars

-----------------------------------------------------------------------------
(* Properties of get_padding_for_sharing.                                  *)

SharingCalled == info.built /\ ret.op = "get_padding_for_sharing"
StorageCalled == info.built /\ ret.op = "get_padding_for_storage"

\* The storage strategy's documented domain: both fields present,
\* new_head_size >= 0 and fs_block_size > 0.
StorageDomain ==
    /\ info.new_head_size # None /\ info.new_head_size[1] >= 0
    /\ info.fs_block_size # None /\ info.fs_block_size[1] > 0

\* C1: for every size_diff and every new_tail_size >= 0,
\* get_padding_for_sharing returns a value >= 0.
C1_SharingNonNegative ==
    (SharingCalled /\ info.new_tail_size >= 0)
        => (ret.out.kind = "return" /\ ret.out.val >= 0)

\* C1's case: the metadata grew (padding_before < 0) and the call topped the
\* padding up to a non-negative amount.
C1_Witness ==
    /\ SharingCalled /\ info.new_tail_size >= 0
    /\ info.size_diff > 0
    /\ ret.out.kind = "return" /\ ret.out.val > 0

\* C2: with padding_before = -size_diff, high = 10240 + new_tail_size // 100
\* and low = 1024 + new_tail_size // 1000, get_padding_for_sharing returns
\* padding_before when 0 <= padding_before <= high (high included) and low
\* in every other case.
C2_SharingValue ==
    SharingCalled =>
        LET padding_before == -info.size_diff
            high == 10240 + info.new_tail_size \div 100
            low == 1024 + info.new_tail_size \div 1000
        IN  ret.out = IF 0 <= padding_before /\ padding_before <= high
                      THEN Return(padding_before)
                      ELSE Return(low)

\* C2's boundary case: padding_before = high exactly, and it was kept.
C2_Witness ==
    /\ SharingCalled
    /\ -info.size_diff = 10240 + info.new_tail_size \div 100
    /\ info.new_tail_size >= 100
    /\ ret.out = Return(-info.size_diff)

\* C9: the sharing strategy is stable over repeated saves: when the padding p
\* it returned is found by the next save (same new_tail_size >= 0, no size
\* change), it returns p again; and low <= high for every new_tail_size >= 0.
C9_SharingStable ==
    /\ (info.built /\ info.new_tail_size >= 0)
           => sharing_low(info) <= sharing_high(info)
    /\ (SharingCalled /\ prev # None /\ info.new_tail_size >= 0)
           => ret.out = Return(prev[1])

\* C9's case: an oversized padding was shrunk to p = low, the next save found
\* p and the strategy has answered p again.
C9_Witness ==
    /\ SharingCalled /\ prev # None /\ info.new_tail_size >= 1000
    /\ prev[1] = sharing_low(info)
    /\ ret.out = Return(prev[1])

-----------------------------------------------------------------------------
(* Properties of get_padding_for_storage.                                  *)

\* C3: for new_head_size >= 0, fs_block_size > 0 and any size_diff,
\* get_padding_for_storage returns r with 0 <= r < fs_block_size.
C3_StorageRange ==
    (StorageCalled /\ StorageDomain)
        => /\ ret.out.kind = "return"
           /\ 0 <= ret.out.val
           /\ ret.out.val < info.fs_block_size[1]

\* C3's case: the sum of the two terms reaches a whole block and the final
\* modulo brings it back below fs_block_size.
C3_Witness ==
    /\ StorageCalled /\ StorageDomain
    /\ LET fs == info.fs_block_size[1]
           nh == info.new_head_size[1]
       IN  /\ fs > 1
           /\ (fs - (nh % fs)) + ((nh - info.size_diff) % fs) > fs
           /\ ret.out.kind = "return" /\ ret.out.val < fs

\* C4 as stated: for new_head_size >= 0, fs_block_size > 0 and any size_diff,
\* (new_head_size + result) mod fs_block_size = 0.
C4_EndsOnBlockBoundary ==
    (StorageCalled /\ StorageDomain)
        => /\ ret.out.kind = "return"
           /\ (info.new_head_size[1] + ret.out.val) % info.fs_block_size[1] = 0

\* C4 amended: the metadata-plus-padding region ends on a block boundary
\* exactly when the old head size (new_head_size - size_diff) was a multiple
\* of fs_block_size.
C4_EndsOnBoundaryIffOldAligned ==
    (StorageCalled /\ StorageDomain)
        => /\ ret.out.kind = "return"
           /\ ((info.new_head_size[1] + ret.out.val) % info.fs_block_size[1] = 0)
              <=> ((info.new_head_size[1] - info.size_diff)
                       % info.fs_block_size[1] = 0)

\* C4's case: the old head was block aligned, the metadata changed size, and
\* a non-zero padding puts the end of the region on a boundary again.
C4_Witness ==
    /\ StorageCalled /\ StorageDomain
    /\ info.fs_block_size[1] > 1
    /\ info.size_diff # 0
    /\ (info.new_head_size[1] - info.size_diff) % info.fs_block_size[1] = 0
    /\ ret.out.kind = "return" /\ ret.out.val > 0
    /\ (info.new_head_size[1] + ret.out.val) % info.fs_block_size[1] = 0

\* C5: (new_head_size + result) mod fs_block_size
\*       = (new_head_size - size_diff) mod fs_block_size:
\* the in-block offset of what follows the padding is the old one.
C5_OffsetPreserved ==
    (StorageCalled /\ StorageDomain)
        => /\ ret.out.kind = "return"
           /\ (info.new_head_size[1] + ret.out.val) % info.fs_block_size[1]
              = (info.new_head_size[1] - info.size_diff) % info.fs_block_size[1]

\* C5's case: the spec's vector (4096, 5000, -200): the content after the
\* padding stays at in-block offset 1104.
C5_Witness ==
    /\ StorageCalled
    /\ info.fs_block_size = Some(4096) /\ info.new_head_size = Some(5000)
    /\ info.size_diff = -200
    /\ ret.out.kind = "return"
    /\ (5000 + ret.out.val) % 4096 = 1104

\* C10: the result does not depend on new_head_size: it is
\* (-size_diff) mod fs_block_size, hence 0 when size_diff is a multiple of
\* fs_block_size.
C10_StorageIsOldPaddingModBlock ==
    (StorageCalled /\ StorageDomain)
        => /\ ret.out = Return((-info.size_diff) % info.fs_block_size[1])
           /\ (info.size_diff % info.fs_block_size[1] = 0 => ret.out.val = 0)

\* C10's case: a non-zero size_diff that is a whole number of blocks, with a
\* head size that is not, gives padding 0.
C10_Witness ==
    /\ StorageCalled /\ StorageDomain
    /\ info.fs_block_size[1] > 1
    /\ info.size_diff # 0
    /\ info.size_diff % info.fs_block_size[1] = 0
    /\ info.new_head_size[1] % info.fs_block_size[1] # 0
    /\ ret.out = Return(0)

Words(m) == { m[i] : i \in 1..Len(m) }

\* C6: without new_head_size or without fs_block_size the call raises
\* ValueError naming the missing field and returns no value; with both
\* missing the error names new_head_size; nothing is computed (an
\* fs_block_size of 0 next to a missing new_head_size is still ValueError).
C6_StorageMissingField ==
    (StorageCalled /\ (info.new_head_size = None \/ info.fs_block_size = None))
        => /\ ret.out.kind = "raise"
           /\ ret.out.exc = "ValueError"
           /\ IF info.new_head_size = None
              THEN /\ "new_head_size" \in Words(ret.out.msg)
                   /\ "fs_block_size" \notin Words(ret.out.msg)
              ELSE /\ "fs_block_size" \in Words(ret.out.msg)
                   /\ "new_head_size" \notin Words(ret.out.msg)

\* C6's case: both fields missing, the error names new_head_size.
C6_Witness ==
    /\ StorageCalled
    /\ info.new_head_size = None /\ info.fs_block_size = None
    /\ ret.out.kind = "raise"
    /\ "new_head_size" \in Words(ret.out.msg)

-----------------------------------------------------------------------------
(* Properties of _get_padding and get_default_padding.                     *)

\* C7: _get_padding returns the selected strategy's value and nothing else:
\* without a user function it is get_default_padding(), which is
\* get_padding_for_sharing(); with one, the function is called once with the
\* info and its outcome (a negative or huge value, or an exception) is the
\* outcome of _get_padding.
C7_ResolveIsStrategy ==
    /\ (info.built /\ ret.op = "get_default_padding")
           => ret.out = get_padding_for_sharing(info)
    /\ (info.built /\ ret.op = "_get_padding")
           => IF ret.arg = None
              THEN /\ ret.out = get_padding_for_sharing(info)
                   /\ ret.ncalls = 0
              ELSE /\ ret.out = user_func_call(ret.arg[1], info)
                   /\ ret.ncalls = 1

\* C7's case: the user's function returned a negative value and _get_padding
\* returned it as it is.
C7_Witness ==
    /\ info.built /\ ret.op = "_get_padding"
    /\ ret.arg = Some("negative")
    /\ ret.out.kind = "return" /\ ret.out.val < 0
    /\ ret.ncalls = 1

-----------------------------------------------------------------------------
(* Properties of the abstract bases.                                       *)

BaseOps == { "load", "save", "delete", "pprint" }

====
